---- MODULE Spec2Model ----
(***************************************************************************)
(* Profiler agent bootstrap (native/src-jdk15/common_functions.c).         *)
(*                                                                         *)
(* The agent's globals (_jvmti, _jvmti_callbacks, _jvmti_callbacks_static),*)
(* the locals of the running entry point and the state the host keeps for  *)
(* each JVMTI environment are the variables.  Every statement of           *)
(* initializeJVMTI, JNI_OnLoad and Agent_OnLoad that calls the host or     *)
(* writes a global is one step, so that the order of the statements is     *)
(* visible in the reachable states.  The host calls the two entry points   *)
(* one after the other, in any order, up to MaxCalls times.                *)
(*                                                                         *)
(* The host is the environment: every host call may succeed or fail, and   *)
(* GetEnv hands out an environment it created before or a new one, up to   *)
(* MaxEnvs of them.              SetEventCallbacks copies the table it is  *)
(* given (JVMTI: "the function table is copied").  assert(e) ends the      *)
(* process when e is false (the file includes <assert.h> and does not      *)
(* define NDEBUG).  A host call through a NULL _jvmti reads the function   *)
(* table at address 0: the process faults there.                           *)
(***************************************************************************)
EXTENDS Naturals, Integers, Sequences, FiniteSets, TLC

\* ---------------------------------------------------------------- bounds
MaxCalls == 2
MaxEnvs == 2
MaxOptLen == 3

\* ------------------------------------------------------- program constants
NULL == 0
JVMTI_ERROR_NONE == 0
JVMTI_ERROR_NOT_AVAILABLE == 98
JNI_VERSION_1_2 == 65538
AGENT_OK == 0
AGENT_USAGE_ERROR == -1

Envs == 1..MaxEnvs
jvmtiError == {JVMTI_ERROR_NONE, JVMTI_ERROR_NOT_AVAILABLE}

\* The characters an option string is made of: a separator and any other one.
OptChars == {",", "p"}
NoOptions == <<"NULL">>
OptionStrings == UNION {[1..n -> OptChars] : n \in 0..MaxOptLen}
OptionValues == {NoOptions} \cup OptionStrings

\* jvmtiCapabilities bits the agent asks for (lines 75-84), and one it does not.
RequiredCapabilities ==
    {"can_redefine_classes", "can_retransform_classes",
     "can_generate_garbage_collection_events",
     "can_generate_native_method_bind_events", "can_generate_monitor_events",
     "can_get_current_thread_cpu_time", "can_generate_vm_object_alloc_events",
     "can_get_monitor_info"}

\* Slots of jvmtiEventCallbacks: the six the agent ever writes and one it never does.
Slots == {"ClassFileLoadHook", "NativeMethodBind", "MonitorContendedEnter",
          "MonitorContendedEntered", "VMObjectAlloc", "VMInit", "VMDeath"}
FiveSlots == {"ClassFileLoadHook", "NativeMethodBind", "MonitorContendedEnter",
              "MonitorContendedEntered", "VMObjectAlloc"}
NoHook == "NULL"

\* Event kinds of SetEventNotificationMode.
Events == {"JVMTI_EVENT_CLASS_FILE_LOAD_HOOK", "JVMTI_EVENT_NATIVE_METHOD_BIND",
           "JVMTI_EVENT_MONITOR_CONTENDED_ENTER", "JVMTI_EVENT_MONITOR_CONTENDED_ENTERED",
           "JVMTI_EVENT_VM_INIT", "JVMTI_EVENT_VM_OBJECT_ALLOC"}
FourEvents == {"JVMTI_EVENT_CLASS_FILE_LOAD_HOOK", "JVMTI_EVENT_NATIVE_METHOD_BIND",
               "JVMTI_EVENT_MONITOR_CONTENDED_ENTER", "JVMTI_EVENT_MONITOR_CONTENDED_ENTERED"}

VARIABLES
    _jvmti,                  \* jvmtiEnv *_jvmti: NULL or an environment
    _jvmti_callbacks,        \* jvmtiEventCallbacks *_jvmti_callbacks: NULL or "static"
    _jvmti_callbacks_static, \* the table itself: slot -> hook or NoHook
    pc,                      \* position of the host's thread in the agent
    entry,                   \* the entry point running (or that ran last)
    options,                 \* Agent_OnLoad's options argument
    capas,                   \* initializeJVMTI's local capas
    err,                     \* initializeJVMTI's local err
    res,                     \* initializeJVMTI's local res
    retval,                  \* what the last entry point returned
    hostCaps,                \* host: capabilities each environment possesses
    hostCallbacks,           \* host: each environment's copy of the callback table
    hostEnabled,             \* host: events enabled in each environment
    hostEnvs,                \* host: environments created so far (1..hostEnvs)
    log,                     \* what the running call did so far, in order
    count,                   \* process-lifetime number of times each operation ran
    sawWellFormed,           \* history: some Agent_OnLoad call got a string with a comma
    nCalls                   \* entry-point calls the host has made

vars == <<_jvmti, _jvmti_callbacks, _jvmti_callbacks_static, pc, entry, options,
          capas, err, res, retval, hostCaps, hostCallbacks, hostEnabled,
          hostEnvs, log, count, sawWellFormed, nCalls>>

agentVars == <<_jvmti, _jvmti_callbacks, _jvmti_callbacks_static>>
hostVars == <<hostCaps, hostCallbacks, hostEnabled, hostEnvs>>
localVars == <<capas, err, res>>

\* Operations counted over the process lifetime.
CountedOps == {"JNI_OnLoad", "Agent_OnLoad", "GetEnv", "GetEnvOverwrite", "GetCapabilities",
               "AddCapabilities", "TableWrite", "SetEventCallbacks",
               "SetEventNotificationMode"}

ZeroTable == [s \in Slots |-> NoHook]

Bump(op) == [count EXCEPT ![op] = @ + 1]
Logged(e) == Append(log, e)

Init ==
    /\ _jvmti = NULL
    /\ _jvmti_callbacks = "NULL"
    /\ _jvmti_callbacks_static = ZeroTable
    /\ pc = "idle"
    /\ entry = "none"
    /\ options = NoOptions
    /\ capas = {}
    /\ err = JVMTI_ERROR_NONE
    /\ res = JVMTI_ERROR_NONE
    /\ retval = 0
    /\ hostCaps = [e \in Envs |-> {}]
    /\ hostCallbacks = [e \in Envs |-> ZeroTable]
    /\ hostEnabled = [e \in Envs |-> {}]
    /\ hostEnvs = 0
    /\ log = <<>>
    /\ count = [op \in CountedOps |-> 0]
    /\ sawWellFormed = FALSE
    /\ nCalls = 0


\* ------------------------------------------------------------ C helpers
\* strlen(s): the number of characters before the terminator.
strlen(s) == Len(s)

\* strpbrk(s, accept): the position of the first character of s that is in
\* accept, NULL when there is none.
strpbrk(s, accept) ==
    LET hits == {i \in 1..Len(s) : s[i] \in accept}
    IN  IF hits = {} THEN NULL ELSE CHOOSE i \in hits : \A j \in hits : i <= j

\* Mutant: the assert is compiled out.
AssertPasses_Always(r) == TRUE

\* assert(r == JVMTI_ERROR_NONE) lets the caller go on (lines 74, 101, 104, 107, 110, 113).
AssertPasses(r) == r = JVMTI_ERROR_NONE

\* Mutant: the failure of AddCapabilities is never printed.
CapabilityFailureSilent(r) == FALSE

\* if (err != JVMTI_ERROR_NONE) of line 86: the failure is printed.
CapabilityFailureReported(r) == r # JVMTI_ERROR_NONE

\* Mutant: JNI_OnLoad without its guard.
JNI_OnLoad_unguarded(h) == TRUE

\* if (_jvmti == NULL) of line 118.
JNI_OnLoad_guard(h) == h = NULL

\* Mutant: only the NULL test, the empty string counts as options.
HasOptions_NoLengthTest(o) == o # NoOptions

\* options != NULL && strlen(options) > 0 of line 144.
HasOptions(o) == o # NoOptions /\ strlen(o) > 0

\* Mutant: only the first character is compared with the separator.
IsUsageError_FirstCharOnly(o) == o[1] # ","

\* strpbrk(options, ",") == NULL of line 145.
IsUsageError(o) == strpbrk(o, {","}) = NULL

\* Mutant: the object-allocation hook is left out.
PopulatedTable_NoVMObjectAlloc(t) ==
    [t EXCEPT !["ClassFileLoadHook"] = "class_file_load_hook",
              !["NativeMethodBind"] = "native_method_bind_hook",
              !["MonitorContendedEnter"] = "monitor_contended_enter_hook",
              !["MonitorContendedEntered"] = "monitor_contended_entered_hook"]

\* Lines 95-99: the five hooks written into the table.
PopulatedTable(t) ==
    [t EXCEPT !["ClassFileLoadHook"] = "class_file_load_hook",
              !["NativeMethodBind"] = "native_method_bind_hook",
              !["MonitorContendedEnter"] = "monitor_contended_enter_hook",
              !["MonitorContendedEntered"] = "monitor_contended_entered_hook",
              !["VMObjectAlloc"] = "vm_object_alloc"]

\* Mutant: the VMInit slot is not written.
WithVMInit_Forgotten(t) == t

\* Line 150.
WithVMInit(t) == [t EXCEPT !["VMInit"] = "vm_init_hook"]

\* Mutant: the object-allocation event is enabled in place of the last monitor event.
EnableOrder_WithObjectAlloc ==
    <<"JVMTI_EVENT_CLASS_FILE_LOAD_HOOK", "JVMTI_EVENT_NATIVE_METHOD_BIND",
      "JVMTI_EVENT_MONITOR_CONTENDED_ENTER", "JVMTI_EVENT_VM_OBJECT_ALLOC">>

\* Lines 103-113: the events enabled, in order.
EnableOrder == <<"JVMTI_EVENT_CLASS_FILE_LOAD_HOOK", "JVMTI_EVENT_NATIVE_METHOD_BIND",
                 "JVMTI_EVENT_MONITOR_CONTENDED_ENTER",
                 "JVMTI_EVENT_MONITOR_CONTENDED_ENTERED">>
EnablePc == <<"Enable1", "Enable2", "Enable3", "Enable4">>

\* Where initializeJVMTI returns to (lines 121 and 132).
ReturnTo(en) == IF en = "JNI_OnLoad" THEN "jni_after" ELSE "agent_print_options"

\* One entry of the log: the operation, its argument and its result.
Ev(op, arg, r) == [op |-> op, arg |-> arg, r |-> r]

\* ------------------------------------------------------ the host's effects
\* GetEnv: an environment the host created before, or one it creates now.
Host_GetEnv == {e \in Envs : e <= hostEnvs + 1}

\* GetCapabilities: the capabilities the environment possesses.
Host_GetCapabilities(env) == hostCaps[env]

\* AddCapabilities: on success the environment possesses the requested ones too.
Host_AddCapabilities(env, c, r) ==
    IF r = JVMTI_ERROR_NONE THEN [hostCaps EXCEPT ![env] = @ \cup c] ELSE hostCaps

\* SetEventCallbacks: on success the environment's table is a copy of t.
Host_SetEventCallbacks(env, t, r) ==
    IF r = JVMTI_ERROR_NONE THEN [hostCallbacks EXCEPT ![env] = t] ELSE hostCallbacks

\* SetEventNotificationMode(mode, ev): on success ev is enabled or disabled.
Host_SetEventNotificationMode(env, mode, ev, r) ==
    IF r # JVMTI_ERROR_NONE THEN hostEnabled
    ELSE IF mode = "JVMTI_ENABLE" THEN [hostEnabled EXCEPT ![env] = @ \cup {ev}]
    ELSE [hostEnabled EXCEPT ![env] = @ \ {ev}]

\* Mutant: the second of the monitor events is switched off again.
NotificationMode_DisablesOne(ev) ==
    IF ev = "JVMTI_EVENT_MONITOR_CONTENDED_ENTER" /\ count["SetEventNotificationMode"] > 4
    THEN "JVMTI_DISABLE" ELSE "JVMTI_ENABLE"

\* The mode argument of every SetEventNotificationMode call (lines 103-112, 152).
NotificationMode(ev) == "JVMTI_ENABLE"

\* ------------------------------------------------------- initializeJVMTI
\* Line 67: GetEnv writes _jvmti: an environment, or NULL when it fails.
initializeJVMTI_GetEnv ==
    /\ pc = "GetEnv"
    /\ \E e \in Host_GetEnv \cup {NULL} :
          /\ _jvmti' = e
          /\ hostEnvs' = IF e > hostEnvs THEN e ELSE hostEnvs
          /\ log' = Logged(Ev("GetEnv", "_jvmti",
                              IF e = NULL THEN JVMTI_ERROR_NOT_AVAILABLE ELSE JVMTI_ERROR_NONE))
    /\ count' = [count EXCEPT !["GetEnv"] = @ + 1,
                              !["GetEnvOverwrite"] = IF _jvmti # NULL THEN @ + 1 ELSE @]
    /\ pc' = "GetCapabilities"
    /\ UNCHANGED <<_jvmti_callbacks, _jvmti_callbacks_static, entry, options,
                   localVars, retval, hostCaps, hostCallbacks, hostEnabled, nCalls, sawWellFormed>>

\* Lines 73-74: (*_jvmti)->GetCapabilities and its assert.  With _jvmti NULL the
\* call reads the function table at address 0 and the process faults.
initializeJVMTI_GetCapabilities ==
    /\ pc = "GetCapabilities"
    /\ IF _jvmti = NULL
       THEN /\ pc' = "crashed"
            /\ log' = Logged(Ev("NullHandleUse", "GetCapabilities", JVMTI_ERROR_NONE))
            /\ UNCHANGED <<capas, err, count>>
       ELSE \E r \in jvmtiError :
              /\ err' = r
              /\ capas' = IF r = JVMTI_ERROR_NONE THEN Host_GetCapabilities(_jvmti) ELSE capas
              /\ log' = Logged(Ev("GetCapabilities", "capas", r))
              /\ count' = Bump("GetCapabilities")
              /\ pc' = IF AssertPasses(r) THEN "AddCapabilities" ELSE "aborted"
    /\ UNCHANGED <<agentVars, entry, options, res, retval, hostVars, nCalls, sawWellFormed>>

\* Lines 75-88: the required bits are set in capas, AddCapabilities is called
\* and a failure is printed on stderr with its code; there is no assert.
initializeJVMTI_AddCapabilities ==
    /\ pc = "AddCapabilities"
    /\ capas' = capas \cup RequiredCapabilities
    /\ \E r \in jvmtiError :
          /\ err' = r
          /\ hostCaps' = Host_AddCapabilities(_jvmti, capas', r)
          /\ log' = IF CapabilityFailureReported(r)
                    THEN log \o <<Ev("AddCapabilities", "capas", r),
                                  Ev("fprintf", "stderr: Failed to obtain JVMTI capabilities", r)>>
                    ELSE Logged(Ev("AddCapabilities", "capas", r))
    /\ count' = Bump("AddCapabilities")
    /\ pc' = "memset"
    /\ UNCHANGED <<agentVars, entry, options, res, retval, hostCallbacks, hostEnabled, hostEnvs, nCalls, sawWellFormed>>

\* Mutant: the table is not zeroed before it is populated.
initializeJVMTI_memset_Forgotten ==
    /\ pc = "memset"
    /\ _jvmti_callbacks' = "static"
    /\ log' = Logged(Ev("memset", "_jvmti_callbacks", JVMTI_ERROR_NONE))
    /\ count' = Bump("TableWrite")
    /\ pc' = "populate"
    /\ UNCHANGED <<_jvmti, _jvmti_callbacks_static, entry, options, localVars, retval,
                   hostVars, nCalls, sawWellFormed>>

\* Lines 91-92: _jvmti_callbacks points at the static table, which is zeroed.
initializeJVMTI_memset ==
    /\ pc = "memset"
    /\ _jvmti_callbacks' = "static"
    /\ _jvmti_callbacks_static' = ZeroTable
    /\ log' = Logged(Ev("memset", "_jvmti_callbacks", JVMTI_ERROR_NONE))
    /\ count' = Bump("TableWrite")
    /\ pc' = "populate"
    /\ UNCHANGED <<_jvmti, entry, options, localVars, retval, hostVars, nCalls, sawWellFormed>>

\* Mutant: the registration is left out, the enables follow the population.
initializeJVMTI_populate_EnablesFirst ==
    /\ pc = "populate"
    /\ _jvmti_callbacks_static' = PopulatedTable(_jvmti_callbacks_static)
    /\ log' = Logged(Ev("populate", "_jvmti_callbacks", JVMTI_ERROR_NONE))
    /\ count' = Bump("TableWrite")
    /\ pc' = EnablePc[1]
    /\ UNCHANGED <<_jvmti, _jvmti_callbacks, entry, options, localVars, retval, hostVars, nCalls, sawWellFormed>>

\* Lines 95-99: the five hooks are stored.
initializeJVMTI_populate ==
    /\ pc = "populate"
    /\ _jvmti_callbacks_static' = PopulatedTable(_jvmti_callbacks_static)
    /\ log' = Logged(Ev("populate", "_jvmti_callbacks", JVMTI_ERROR_NONE))
    /\ count' = Bump("TableWrite")
    /\ pc' = "SetEventCallbacks"
    /\ UNCHANGED <<_jvmti, _jvmti_callbacks, entry, options, localVars, retval, hostVars, nCalls, sawWellFormed>>

\* Lines 100-101: the table is registered and the result asserted.
initializeJVMTI_SetEventCallbacks ==
    /\ pc = "SetEventCallbacks"
    /\ \E r \in jvmtiError :
          /\ res' = r
          /\ hostCallbacks' = Host_SetEventCallbacks(_jvmti, _jvmti_callbacks_static, r)
          /\ log' = Logged(Ev("SetEventCallbacks", "initializeJVMTI", r))
          /\ pc' = IF AssertPasses(r) THEN EnablePc[1] ELSE "aborted"
    /\ count' = Bump("SetEventCallbacks")
    /\ UNCHANGED <<agentVars, entry, options, capas, err, retval, hostCaps, hostEnabled, hostEnvs, nCalls, sawWellFormed>>

\* Lines 103-113: the i-th SetEventNotificationMode(JVMTI_ENABLE, ...) and its assert.
initializeJVMTI_SetEventNotificationMode(i) ==
    /\ pc = EnablePc[i]
    /\ \E r \in jvmtiError :
          /\ res' = r
          /\ hostEnabled' = Host_SetEventNotificationMode(_jvmti, NotificationMode(EnableOrder[i]), EnableOrder[i], r)
          /\ log' = Logged(Ev("SetEventNotificationMode", EnableOrder[i], r))
          /\ pc' = IF ~AssertPasses(r) THEN "aborted"
                   ELSE IF i < Len(EnableOrder) THEN EnablePc[i + 1]
                   ELSE ReturnTo(entry)
    /\ count' = Bump("SetEventNotificationMode")
    /\ UNCHANGED <<agentVars, entry, options, capas, err, retval, hostCaps, hostCallbacks, hostEnvs, nCalls, sawWellFormed>>

\* ------------------------------------------------------------ JNI_OnLoad
\* The host loads the library (System.loadLibrary) and calls JNI_OnLoad.
Host_calls_JNI_OnLoad ==
    /\ pc = "idle"
    /\ nCalls < MaxCalls
    /\ nCalls' = nCalls + 1
    /\ entry' = "JNI_OnLoad"
    /\ log' = <<>>
    /\ count' = Bump("JNI_OnLoad")
    /\ pc' = "jni_check"
    /\ UNCHANGED <<agentVars, options, localVars, retval, hostVars, sawWellFormed>>

\* Lines 118-121: the sequence runs only while there is no handle.
JNI_OnLoad_check ==
    /\ pc = "jni_check"
    /\ IF JNI_OnLoad_guard(_jvmti)
       THEN /\ log' = Logged(Ev("fprintf", "stdout: JNI OnLoad Initializing...", 0))
            /\ pc' = "GetEnv"
       ELSE /\ log' = log
            /\ pc' = "jni_return"
    /\ UNCHANGED <<agentVars, entry, options, localVars, retval, hostVars, count, nCalls, sawWellFormed>>

\* Line 123.
JNI_OnLoad_after ==
    /\ pc = "jni_after"
    /\ log' = Logged(Ev("fprintf", "stdout: JNI OnLoad Initialized successfully", 0))
    /\ pc' = "jni_return"
    /\ UNCHANGED <<agentVars, entry, options, localVars, retval, hostVars, count, nCalls, sawWellFormed>>

\* Line 125.
JNI_OnLoad_return ==
    /\ pc = "jni_return"
    /\ retval' = JNI_VERSION_1_2
    /\ pc' = "idle"
    /\ UNCHANGED <<agentVars, entry, options, localVars, hostVars, log, count, nCalls, sawWellFormed>>

\* ---------------------------------------------------------- Agent_OnLoad
\* The host calls Agent_OnLoad with an option string, or with none.
Host_calls_Agent_OnLoad ==
    /\ pc = "idle"
    /\ nCalls < MaxCalls
    /\ nCalls' = nCalls + 1
    /\ entry' = "Agent_OnLoad"
    /\ \E o \in OptionValues :
          /\ options' = o
          /\ sawWellFormed' = (sawWellFormed \/ (o # NoOptions /\ \E i \in 1..Len(o) : o[i] = ","))
    /\ log' = <<>>
    /\ count' = Bump("Agent_OnLoad")
    /\ pc' = "agent_begin"
    /\ UNCHANGED <<agentVars, localVars, retval, hostVars>>

\* Mutant: Agent_OnLoad guarded like JNI_OnLoad.
Agent_OnLoad_begin_Guarded ==
    /\ pc = "agent_begin"
    /\ log' = Logged(Ev("fprintf", "stdout: Initializing...", 0))
    /\ pc' = IF _jvmti = NULL THEN "GetEnv" ELSE "agent_print_options"
    /\ UNCHANGED <<agentVars, entry, options, localVars, retval, hostVars, count, nCalls, sawWellFormed>>

\* Lines 130-132: no guard; the sequence always runs.
Agent_OnLoad_begin ==
    /\ pc = "agent_begin"
    /\ log' = Logged(Ev("fprintf", "stdout: Initializing...", 0))
    /\ pc' = "GetEnv"
    /\ UNCHANGED <<agentVars, entry, options, localVars, retval, hostVars, count, nCalls, sawWellFormed>>

\* Lines 134-138.
Agent_OnLoad_print_options ==
    /\ pc = "agent_print_options"
    /\ log' = Logged(Ev("fprintf", IF options # NoOptions THEN "stdout: Options" ELSE "stdout: No options", 0))
    /\ pc' = "agent_check"
    /\ UNCHANGED <<agentVars, entry, options, localVars, retval, hostVars, count, nCalls, sawWellFormed>>

\* Lines 144-145: which of the three branches is taken.
Agent_OnLoad_check ==
    /\ pc = "agent_check"
    /\ pc' = IF HasOptions(options)
             THEN IF IsUsageError(options) THEN "agent_usage" ELSE "agent_parse"
             ELSE "agent_success"
    /\ UNCHANGED <<agentVars, entry, options, localVars, retval, hostVars, log, count, nCalls, sawWellFormed>>

\* Mutant: the usage error undoes the enables before it returns.
Agent_OnLoad_usage_RollsBack ==
    /\ pc = "agent_usage"
    /\ log' = Logged(Ev("fprintf", "stderr: usage", 0))
    /\ retval' = AGENT_USAGE_ERROR
    /\ hostEnabled' = [hostEnabled EXCEPT ![_jvmti] = @ \ FourEvents]
    /\ pc' = "idle"
    /\ UNCHANGED <<agentVars, entry, options, localVars, hostCaps, hostCallbacks, hostEnvs,
                   count, nCalls, sawWellFormed>>

\* Lines 146-147 (report_usage, lines 54-58).
Agent_OnLoad_usage ==
    /\ pc = "agent_usage"
    /\ log' = Logged(Ev("fprintf", "stderr: usage", 0))
    /\ retval' = AGENT_USAGE_ERROR
    /\ pc' = "idle"
    /\ UNCHANGED <<agentVars, entry, options, localVars, hostVars, count, nCalls, sawWellFormed>>

\* Line 149: the string is handed to parse_options_and_extract_params.
Agent_OnLoad_parse ==
    /\ pc = "agent_parse"
    /\ log' = Logged(Ev("parse_options_and_extract_params", "options", 0))
    /\ pc' = "agent_set_VMInit"
    /\ UNCHANGED <<agentVars, entry, options, localVars, retval, hostVars, count, nCalls, sawWellFormed>>

\* Line 150.
Agent_OnLoad_set_VMInit ==
    /\ pc = "agent_set_VMInit"
    /\ _jvmti_callbacks_static' = WithVMInit(_jvmti_callbacks_static)
    /\ log' = Logged(Ev("set_VMInit", "_jvmti_callbacks", 0))
    /\ count' = Bump("TableWrite")
    /\ pc' = "agent_SetEventCallbacks"
    /\ UNCHANGED <<_jvmti, _jvmti_callbacks, entry, options, localVars, retval, hostVars, nCalls, sawWellFormed>>

\* Line 151: the table is registered again; the result is dropped.
Agent_OnLoad_SetEventCallbacks ==
    /\ pc = "agent_SetEventCallbacks"
    /\ \E r \in jvmtiError :
          /\ hostCallbacks' = Host_SetEventCallbacks(_jvmti, _jvmti_callbacks_static, r)
          /\ log' = Logged(Ev("SetEventCallbacks", "Agent_OnLoad", r))
    /\ count' = Bump("SetEventCallbacks")
    /\ pc' = "agent_enable_VM_INIT"
    /\ UNCHANGED <<agentVars, entry, options, localVars, retval, hostCaps, hostEnabled, hostEnvs, nCalls, sawWellFormed>>

\* Line 152: VM_INIT is enabled; the result is dropped.
Agent_OnLoad_SetEventNotificationMode ==
    /\ pc = "agent_enable_VM_INIT"
    /\ \E r \in jvmtiError :
          /\ hostEnabled' = Host_SetEventNotificationMode(_jvmti, NotificationMode("JVMTI_EVENT_VM_INIT"),
                                                         "JVMTI_EVENT_VM_INIT", r)
          /\ log' = Logged(Ev("SetEventNotificationMode", "JVMTI_EVENT_VM_INIT", r))
    /\ count' = Bump("SetEventNotificationMode")
    /\ pc' = "agent_success"
    /\ UNCHANGED <<agentVars, entry, options, localVars, retval, hostCaps, hostCallbacks, hostEnvs, nCalls, sawWellFormed>>

\* Lines 156-157.
Agent_OnLoad_success ==
    /\ pc = "agent_success"
    /\ log' = Logged(Ev("fprintf", "stdout: Initialized successfully", 0))
    /\ retval' = AGENT_OK
    /\ pc' = "idle"
    /\ UNCHANGED <<agentVars, entry, options, localVars, hostVars, count, nCalls, sawWellFormed>>

Next ==
    \/ Host_calls_JNI_OnLoad
    \/ Host_calls_Agent_OnLoad
    \/ initializeJVMTI_GetEnv
    \/ initializeJVMTI_GetCapabilities
    \/ initializeJVMTI_AddCapabilities
    \/ initializeJVMTI_memset
    \/ initializeJVMTI_populate
    \/ initializeJVMTI_SetEventCallbacks
    \/ \E i \in 1..Len(EnableOrder) : initializeJVMTI_SetEventNotificationMode(i)
    \/ JNI_OnLoad_check
    \/ JNI_OnLoad_after
    \/ JNI_OnLoad_return
    \/ Agent_OnLoad_begin
    \/ Agent_OnLoad_print_options
    \/ Agent_OnLoad_check
    \/ Agent_OnLoad_usage
    \/ Agent_OnLoad_parse
    \/ Agent_OnLoad_set_VMInit
    \/ Agent_OnLoad_SetEventCallbacks
    \/ Agent_OnLoad_SetEventNotificationMode
    \/ Agent_OnLoad_success

Spec == Init /\ [][Next]_vars

TypeOK ==
    /\ _jvmti \in Envs \cup {NULL}
    /\ _jvmti_callbacks \in {"NULL", "static"}
    /\ _jvmti_callbacks_static \in [Slots -> STRING]
    /\ options \in OptionValues
    /\ nCalls \in 0..MaxCalls

\* ------------------------------------------------- vocabulary of the claims
\* The slots of a table that hold a hook.
SetSlots(t) == {sl \in Slots : t[sl] # NoHook}

\* An entry point has returned to the host.
Returned(en) == pc = "idle" /\ entry = en

\* The running (or last) call did op on arg, with any result.
LogHas(op, arg) == \E i \in 1..Len(log) : log[i].op = op /\ log[i].arg = arg

\* The option string as the host's user sees it.
HasComma(o) == o # NoOptions /\ \E i \in 1..Len(o) : o[i] = ","
IsCommaFree(o) == o # NoOptions /\ o # <<>> /\ \A i \in 1..Len(o) : o[i] # ","
IsAbsentOrEmpty(o) == o = NoOptions \/ o = <<>>

\* The running call has finished initializeJVMTI: its last enable succeeded.
InitCompleted == \E i \in 1..Len(log) :
    log[i] = Ev("SetEventNotificationMode", EnableOrder[Len(EnableOrder)], JVMTI_ERROR_NONE)

\* The part of the log after initializeJVMTI's last enable.
AfterInit ==
    LET i == CHOOSE k \in 1..Len(log) :
                log[k] = Ev("SetEventNotificationMode", EnableOrder[Len(EnableOrder)], JVMTI_ERROR_NONE)
    IN  SubSeq(log, i + 1, Len(log))

\* ------------------------------------------------------------------ C1
\* C1: in every reachable state, an environment in which one of the four event
\* categories is enabled has a registered table with all five hook slots set;
\* and whenever the agent is about to enable a category, its table has the five
\* slots set and is the table registered in the current environment.
C1_EnabledOnlyAfterRegistration ==
    /\ \A e \in Envs :
          hostEnabled[e] \cap FourEvents # {} => FiveSlots \subseteq SetSlots(hostCallbacks[e])
    /\ (\E i \in 1..Len(EnablePc) : pc = EnablePc[i]) =>
          /\ _jvmti # NULL
          /\ _jvmti_callbacks = "static"
          /\ FiveSlots \subseteq SetSlots(_jvmti_callbacks_static)
          /\ hostCallbacks[_jvmti] = _jvmti_callbacks_static

\* A second run of the sequence has zeroed the agent's table while the four
\* categories are enabled from the first run.
C1_Witness ==
    /\ pc = "populate"
    /\ nCalls >= 2
    /\ SetSlots(_jvmti_callbacks_static) = {}
    /\ \E e \in Envs : FourEvents \subseteq hostEnabled[e]

\* ------------------------------------------------------------------ C2
\* C2 as stated: the table is written once (zeroed and populated by one run)
\* and registered once for the process lifetime.
C2_WrittenAndRegisteredOnce ==
    /\ count["SetEventCallbacks"] <= 1
    /\ count["TableWrite"] <= 2

\* C2, amended: once the table has been registered, no step of JNI_OnLoad
\* writes it or calls SetEventCallbacks; only Agent_OnLoad does, and every
\* Agent_OnLoad call that returns has zeroed, populated and registered it.
C2_OnlyAgentOnLoadRewrites ==
    [][ /\ ( /\ count["SetEventCallbacks"] >= 1
             /\ \/ _jvmti_callbacks_static' # _jvmti_callbacks_static
                \/ count'["TableWrite"] # count["TableWrite"]
                \/ count'["SetEventCallbacks"] # count["SetEventCallbacks"] )
           => entry = "Agent_OnLoad"
        /\ Returned("Agent_OnLoad")' =>
              /\ LogHas("memset", "_jvmti_callbacks")'
              /\ LogHas("populate", "_jvmti_callbacks")'
              /\ LogHas("SetEventCallbacks", "initializeJVMTI")'
              /\ HasComma(options') /\ retval' = AGENT_OK =>
                    LogHas("SetEventCallbacks", "Agent_OnLoad")' ]_vars

\* JNI_OnLoad has returned without doing anything, after Agent_OnLoad had
\* registered the table twice.
C2_Witness ==
    /\ Returned("JNI_OnLoad")
    /\ log = <<>>
    /\ count["SetEventCallbacks"] >= 2

\* ------------------------------------------------------------------ C3
\* C3 as stated: a failure of GetCapabilities or of AddCapabilities is
\* reported on stderr and does not abort the sequence, which completes.
C3_NoCapabilityFailureAborts ==
    \A i \in 1..Len(log) :
       (log[i].op \in {"GetCapabilities", "AddCapabilities"} /\ log[i].r # JVMTI_ERROR_NONE) =>
          /\ ~(pc = "aborted" /\ i = Len(log))
          /\ i < Len(log)
          /\ log[i + 1] = Ev("fprintf", "stderr: Failed to obtain JVMTI capabilities", log[i].r)

\* C3, amended: a failure of AddCapabilities is reported on stderr with its
\* code and does not abort; the sequence goes on to register the table, and
\* when registration and the four enables succeed, the four categories are
\* enabled with the five hooks registered.
C3_AddCapabilitiesFailureTolerated ==
    \A i \in 1..Len(log) :
       (log[i].op = "AddCapabilities" /\ log[i].r # JVMTI_ERROR_NONE) =>
          /\ i < Len(log)
          /\ log[i + 1] = Ev("fprintf", "stderr: Failed to obtain JVMTI capabilities", log[i].r)
          /\ pc \notin {"crashed", "AddCapabilities"}
          /\ pc = "aborted" =>
                /\ Len(log) > i + 3
                /\ log[Len(log)].op \in {"SetEventCallbacks", "SetEventNotificationMode"}
          /\ InitCompleted =>
                /\ FourEvents \subseteq hostEnabled[_jvmti]
                /\ FiveSlots \subseteq SetSlots(hostCallbacks[_jvmti])

\* An entry point has returned although AddCapabilities failed.
C3_Witness ==
    /\ pc = "idle"
    /\ InitCompleted
    /\ \E i \in 1..Len(log) : log[i].op = "AddCapabilities" /\ log[i].r # JVMTI_ERROR_NONE
    /\ hostCaps[_jvmti] = {}
    /\ FourEvents \subseteq hostEnabled[_jvmti]

\* ------------------------------------------------------------------ C4
\* C4: a JNI_OnLoad call that finds a handle goes straight to its return and
\* changes neither the handle, the table, the host's state nor the number of
\* host calls made; with JNI_OnLoad calls only, a returned call has seen one
\* GetEnv, one negotiation, one registration and four enables in total.
C4_JNI_OnLoadIdempotent ==
    [][ /\ (pc = "jni_check" /\ _jvmti # NULL) => pc' = "jni_return"
        /\ (entry' = "JNI_OnLoad" /\ _jvmti # NULL /\ pc \in {"idle", "jni_check", "jni_return"}) =>
              /\ UNCHANGED <<agentVars, hostVars>>
              /\ \A op \in CountedOps \ {"JNI_OnLoad"} : count'[op] = count[op]
        /\ (Returned("JNI_OnLoad")' /\ count'["Agent_OnLoad"] = 0) =>
              /\ count'["GetEnv"] = 1
              /\ count'["GetCapabilities"] = 1
              /\ count'["AddCapabilities"] = 1
              /\ count'["SetEventCallbacks"] = 1
              /\ count'["SetEventNotificationMode"] = Len(EnableOrder)
              /\ count'["TableWrite"] = 2 ]_vars

\* JNI_OnLoad has returned for the second time and Agent_OnLoad never ran.
C4_Witness ==
    /\ Returned("JNI_OnLoad")
    /\ count["JNI_OnLoad"] >= 2
    /\ log = <<>>
    /\ count["Agent_OnLoad"] = 0
    /\ FourEvents \subseteq hostEnabled[_jvmti]

\* ------------------------------------------------------------------ C5
\* C5: Agent_OnLoad prints the usage message only for a non-empty string
\* without a comma, and when it returns: it returns -1 and has printed the
\* usage message exactly for such a string, and then it has not parsed, not
\* set the VMInit slot, not enabled VM_INIT and not printed the success
\* message; for every other value it returns 0.
C5_UsageErrorExactlyForCommaFree ==
    /\ LogHas("fprintf", "stderr: usage") => (entry = "Agent_OnLoad" /\ IsCommaFree(options))
    /\ Returned("Agent_OnLoad") =>
          /\ (retval = AGENT_USAGE_ERROR) <=> IsCommaFree(options)
          /\ LogHas("fprintf", "stderr: usage") <=> IsCommaFree(options)
          /\ ~IsCommaFree(options) => retval = AGENT_OK
          /\ IsCommaFree(options) =>
                /\ ~LogHas("parse_options_and_extract_params", "options")
                /\ _jvmti_callbacks_static["VMInit"] = NoHook
                /\ ~LogHas("SetEventNotificationMode", "JVMTI_EVENT_VM_INIT")
                /\ ~LogHas("fprintf", "stdout: Initialized successfully")

\* Agent_OnLoad has returned -1 for a string of several characters.
C5_Witness ==
    /\ Returned("Agent_OnLoad")
    /\ retval = AGENT_USAGE_ERROR
    /\ Len(options) >= 2

\* ------------------------------------------------------------------ C6
\* C6: when Agent_OnLoad returns for a non-empty string with a comma, it
\* returns 0 without a usage message, and after the four enables it has, in
\* this order, handed the string to the parser, set the VMInit slot (the only
\* slot besides the five), registered the table, enabled VM_INIT and printed
\* the success message; where the host reported success, the registered table
\* is the six-slot table and VM_INIT is enabled.
C6_WellFormedArmsVMInit ==
    (Returned("Agent_OnLoad") /\ HasComma(options)) =>
       /\ retval = AGENT_OK
       /\ ~LogHas("fprintf", "stderr: usage")
       /\ InitCompleted
       /\ SetSlots(_jvmti_callbacks_static) = FiveSlots \cup {"VMInit"}
       /\ \E r1, r2 \in jvmtiError :
             /\ AfterInit = << Ev("fprintf", "stdout: Options", 0),
                               Ev("parse_options_and_extract_params", "options", 0),
                               Ev("set_VMInit", "_jvmti_callbacks", 0),
                               Ev("SetEventCallbacks", "Agent_OnLoad", r1),
                               Ev("SetEventNotificationMode", "JVMTI_EVENT_VM_INIT", r2),
                               Ev("fprintf", "stdout: Initialized successfully", 0) >>
             /\ r1 = JVMTI_ERROR_NONE => hostCallbacks[_jvmti] = _jvmti_callbacks_static
             /\ r2 = JVMTI_ERROR_NONE => "JVMTI_EVENT_VM_INIT" \in hostEnabled[_jvmti]

\* Agent_OnLoad has returned for a string with a field after a second comma.
C6_Witness ==
    /\ Returned("Agent_OnLoad")
    /\ options = <<",", ",", "p">>
    /\ retval = AGENT_OK
    /\ "JVMTI_EVENT_VM_INIT" \in hostEnabled[_jvmti]
    /\ hostCallbacks[_jvmti]["VMInit"] # NoHook

\* ------------------------------------------------------------------ C7
\* C7: when Agent_OnLoad returns for an absent or empty string, it returns 0
\* with the four categories enabled, and in this call it has not called the
\* parser, not set the VMInit slot, not registered a second time, not enabled
\* VM_INIT and not printed the usage message.
C7_CalibrationBranch ==
    (Returned("Agent_OnLoad") /\ IsAbsentOrEmpty(options)) =>
       /\ retval = AGENT_OK
       /\ FourEvents \subseteq hostEnabled[_jvmti]
       /\ InitCompleted
       /\ \E m \in {"stdout: Options", "stdout: No options"} :
             AfterInit = << Ev("fprintf", m, 0),
                            Ev("fprintf", "stdout: Initialized successfully", 0) >>
       /\ _jvmti_callbacks_static["VMInit"] = NoHook
       /\ SetSlots(hostCallbacks[_jvmti]) = FiveSlots

\* Agent_OnLoad has returned for the empty string, after an earlier call.
C7_Witness ==
    /\ Returned("Agent_OnLoad")
    /\ options = <<>>
    /\ nCalls >= 2
    /\ retval = AGENT_OK

\* ------------------------------------------------------------------ C8
\* C8: after a registration call has failed nothing more happens: the failed
\* SetEventCallbacks is the last thing the call did and the process has
\* aborted, so no entry point returns and no notification is enabled after it.
C8_EveryRegistrationChecked ==
    \A i \in 1..Len(log) :
       (log[i].op = "SetEventCallbacks" /\ log[i].r # JVMTI_ERROR_NONE) =>
          (pc = "aborted" /\ i = Len(log))

\* ------------------------------------------------------------------ C9
\* C9 as stated: GetEnv never writes _jvmti while it holds a handle.
C9_HandleWrittenOnce == count["GetEnvOverwrite"] = 0

\* C9, amended: only Agent_OnLoad writes _jvmti while it holds a handle;
\* JNI_OnLoad never does.  Every Agent_OnLoad call writes it, so the handle is
\* written once for each Agent_OnLoad call and at most once by JNI_OnLoad.
C9_OnlyAgentOnLoadReacquires ==
    [][ /\ (_jvmti # NULL /\ (_jvmti' # _jvmti \/ count'["GetEnv"] # count["GetEnv"]))
           => entry = "Agent_OnLoad"
        /\ pc' = "idle" =>
              /\ count'["GetEnv"] >= count'["Agent_OnLoad"]
              /\ count'["GetEnv"] <= count'["Agent_OnLoad"] + 1
              /\ count'["GetEnvOverwrite"] <= count'["Agent_OnLoad"] ]_vars

\* JNI_OnLoad acquired the handle, and a later Agent_OnLoad has written it
\* again and returned.
C9_Witness ==
    /\ Returned("Agent_OnLoad")
    /\ count["JNI_OnLoad"] = 1
    /\ count["GetEnv"] = 2
    /\ count["GetEnvOverwrite"] = 1

\* ------------------------------------------------------------------ C10
\* C10: an environment has VM_INIT enabled only if some Agent_OnLoad call got
\* a string with a comma and the environment's registered table holds the
\* VMInit hook together with the five event hooks.
C10_VMInitEnabledOnlyWhenRegistered ==
    \A e \in Envs :
       "JVMTI_EVENT_VM_INIT" \in hostEnabled[e] =>
          /\ sawWellFormed
          /\ (FiveSlots \cup {"VMInit"}) \subseteq SetSlots(hostCallbacks[e])

\* ------------------------------------------------------------------ C11
\* C11: once the sequence has registered the table, the four enable calls are
\* issued one after the other whatever AddCapabilities returned, and a failed
\* enable of one of the four categories is the last thing the call does: the
\* process has aborted, the later categories were not asked for and the entry
\* point has not returned.
C11_EnablesIssuedAndAsserted ==
    /\ \A k \in 1..Len(log) :
          log[k] = Ev("SetEventCallbacks", "initializeJVMTI", JVMTI_ERROR_NONE) =>
             \A j \in 1..4 :
                /\ (Len(log) = k + j - 1 /\ log[k + j - 1].r = JVMTI_ERROR_NONE) =>
                      pc = <<"Enable1", "Enable2", "Enable3", "Enable4">>[j]
                /\ Len(log) >= k + j =>
                      /\ log[k + j].op = "SetEventNotificationMode"
                      /\ log[k + j].arg = <<"JVMTI_EVENT_CLASS_FILE_LOAD_HOOK",
                                            "JVMTI_EVENT_NATIVE_METHOD_BIND",
                                            "JVMTI_EVENT_MONITOR_CONTENDED_ENTER",
                                            "JVMTI_EVENT_MONITOR_CONTENDED_ENTERED">>[j]
    /\ \A i \in 1..Len(log) :
          ( /\ log[i].op = "SetEventNotificationMode"
            /\ log[i].arg \in FourEvents
            /\ log[i].r # JVMTI_ERROR_NONE ) =>
             /\ pc = "aborted"
             /\ i = Len(log)

\* AddCapabilities failed, the first enable went through and the second one
\* failed: the process has aborted with one category enabled.
C11_Witness ==
    /\ pc = "aborted"
    /\ \E i \in 1..Len(log) : log[i].op = "AddCapabilities" /\ log[i].r # JVMTI_ERROR_NONE
    /\ log[Len(log)] = Ev("SetEventNotificationMode", "JVMTI_EVENT_NATIVE_METHOD_BIND",
                          JVMTI_ERROR_NOT_AVAILABLE)
    /\ hostEnabled[_jvmti] = {"JVMTI_EVENT_CLASS_FILE_LOAD_HOOK"}

\* ------------------------------------------------------------------ C12
\* The host calls and table writes of one entry-point call, in the order of
\* the source text.
C12_Order ==
    << <<"GetEnv", "_jvmti">>, <<"GetCapabilities", "capas">>, <<"AddCapabilities", "capas">>,
       <<"memset", "_jvmti_callbacks">>, <<"populate", "_jvmti_callbacks">>,
       <<"SetEventCallbacks", "initializeJVMTI">>,
       <<"SetEventNotificationMode", "JVMTI_EVENT_CLASS_FILE_LOAD_HOOK">>,
       <<"SetEventNotificationMode", "JVMTI_EVENT_NATIVE_METHOD_BIND">>,
       <<"SetEventNotificationMode", "JVMTI_EVENT_MONITOR_CONTENDED_ENTER">>,
       <<"SetEventNotificationMode", "JVMTI_EVENT_MONITOR_CONTENDED_ENTERED">>,
       <<"parse_options_and_extract_params", "options">>,
       <<"set_VMInit", "_jvmti_callbacks">>,
       <<"SetEventCallbacks", "Agent_OnLoad">>,
       <<"SetEventNotificationMode", "JVMTI_EVENT_VM_INIT">> >>

\* What the running call did, without what it printed.
C12_Steps == SelectSeq(log, LAMBDA e : e.op # "fprintf")

\* C12: what a call has done so far is always a prefix of the fixed order
\* (handle, negotiation, zeroing, population, registration, the four enables,
\* then parsing and arming); a call that ran the sequence returns only after
\* the ten steps of the sequence, and Agent_OnLoad looks at its option string
\* only after them.
C12_FixedOrder ==
    /\ Len(C12_Steps) <= Len(C12_Order)
    /\ \A i \in 1..Len(C12_Steps) :
          \/ <<C12_Steps[i].op, C12_Steps[i].arg>> = C12_Order[i]
          \/ /\ C12_Steps[i].op = "NullHandleUse"
             /\ C12_Steps[i].arg = C12_Order[i][1]
             /\ pc = "crashed"
    /\ (pc = "idle" /\ log # <<>>) =>
          /\ Len(C12_Steps) >= 10
          /\ \A i \in 1..10 : C12_Steps[i].op # "NullHandleUse"
          /\ \A i \in 2..10 : i # 3 => C12_Steps[i].r = JVMTI_ERROR_NONE
    /\ pc \in {"agent_print_options", "agent_check", "agent_usage", "agent_parse",
               "agent_set_VMInit", "agent_SetEventCallbacks", "agent_enable_VM_INIT",
               "agent_success", "jni_after"} =>
          /\ Len(C12_Steps) >= 10
          /\ FourEvents \subseteq hostEnabled[_jvmti]
    /\ entry = "JNI_OnLoad" => Len(C12_Steps) <= 10

\* Agent_OnLoad is about to classify its option string in its second call.
C12_Witness ==
    /\ pc = "agent_check"
    /\ nCalls = 2
    /\ Len(C12_Steps) = 10
    /\ HasComma(options)

\* ------------------------------------------------------------------ C13
\* How often the running call did op.
LogCount(op) == Cardinality({i \in 1..Len(log) : log[i].op = op})

\* C13 as stated: a returned Agent_OnLoad call has negotiated once and has
\* registered the table once.
C13_OneRegistrationPerCall ==
    Returned("Agent_OnLoad") =>
       /\ LogCount("AddCapabilities") = 1
       /\ LogCount("SetEventCallbacks") = 1

\* C13, amended: every Agent_OnLoad call, whatever the state it starts in,
\* runs the sequence once before it classifies its option string (also when it
\* then reports a usage error): one GetEnv, one negotiation, one registration
\* by the sequence and the four enables; a call with a well-formed string
\* registers a second time when it arms the hook.
C13_AgentOnLoadAlwaysRunsSequence ==
    /\ (entry = "Agent_OnLoad" /\ pc \in {"agent_check", "agent_usage", "agent_parse", "idle"}) =>
          /\ InitCompleted
          /\ LogCount("GetEnv") = 1
          /\ LogCount("GetCapabilities") = 1
          /\ LogCount("AddCapabilities") = 1
          /\ LogCount("SetEventNotificationMode") >= 4
          /\ Cardinality({i \in 1..Len(log) : /\ log[i].op = "SetEventCallbacks"
                                              /\ log[i].arg = "initializeJVMTI"}) = 1
    /\ Returned("Agent_OnLoad") =>
          LogCount("SetEventCallbacks") = IF HasComma(options) THEN 2 ELSE 1
    /\ pc = "idle" =>
          /\ count["GetEnv"] >= count["Agent_OnLoad"]
          /\ count["AddCapabilities"] >= count["Agent_OnLoad"]
          /\ count["SetEventCallbacks"] >= count["Agent_OnLoad"]
          /\ count["SetEventNotificationMode"] >= 4 * count["Agent_OnLoad"]

\* The second Agent_OnLoad call has returned a usage error after running the
\* sequence again.
C13_Witness ==
    /\ Returned("Agent_OnLoad")
    /\ count["Agent_OnLoad"] = 2
    /\ retval = AGENT_USAGE_ERROR
    /\ count["AddCapabilities"] = 2
    /\ count["GetEnvOverwrite"] = 1

\* ------------------------------------------------------------------ C14
\* C14: no step takes an event out of the set enabled in an environment, and
\* a SetEventNotificationMode call the host accepts leaves its event enabled.
C14_EnablingIsMonotonic ==
    [][ /\ \A e \in Envs : hostEnabled[e] \subseteq hostEnabled'[e]
        /\ count'["SetEventNotificationMode"] # count["SetEventNotificationMode"] =>
              LET last == log'[Len(log')]
              IN  /\ last.op = "SetEventNotificationMode"
                  /\ last.r = JVMTI_ERROR_NONE => last.arg \in hostEnabled'[_jvmti] ]_vars

\* A second run of the sequence is enabling the categories again in the
\* environment in which all five events are enabled already.
C14_Witness ==
    /\ pc = "Enable3"
    /\ nCalls = 2
    /\ hostEnabled[_jvmti] = FourEvents \cup {"JVMTI_EVENT_VM_INIT"}

\* ------------------------------------------------------------------ C15
\* C15: the events enabled in an environment are among the four categories
\* and VM_INIT, VM_INIT only after some Agent_OnLoad call got a string with a
\* comma; no call asks for the object-allocation event although its hook is
\* registered; and when a call that ran the sequence has returned, the four
\* categories are enabled in its environment.
C15_OnlyFourAndVMInitEnabled ==
    /\ \A e \in Envs :
          /\ hostEnabled[e] \subseteq FourEvents \cup {"JVMTI_EVENT_VM_INIT"}
          /\ "JVMTI_EVENT_VM_INIT" \in hostEnabled[e] => sawWellFormed
    /\ ~LogHas("SetEventNotificationMode", "JVMTI_EVENT_VM_OBJECT_ALLOC")
    /\ (pc = "idle" /\ log # <<>>) =>
          /\ FourEvents \subseteq hostEnabled[_jvmti]
          /\ hostCallbacks[_jvmti]["VMObjectAlloc"] # NoHook
          /\ ~HasComma(options) => ~LogHas("SetEventNotificationMode", "JVMTI_EVENT_VM_INIT")

\* A call has returned: exactly the four categories are enabled and the
\* object-allocation hook is registered.
C15_Witness ==
    /\ pc = "idle"
    /\ log # <<>>
    /\ hostEnabled[_jvmti] = FourEvents
    /\ hostCallbacks[_jvmti]["VMObjectAlloc"] = "vm_object_alloc"
    /\ "JVMTI_EVENT_VM_OBJECT_ALLOC" \notin hostEnabled[_jvmti]

\* ------------------------------------------------------------------ C16
\* C16: when the sequence is about to populate the table, every slot is
\* unset; when it is about to register it, exactly the five slots are set;
\* and right after the registration the environment's table has exactly those
\* five slots set.
C16_ExactlyFiveSlotsAtRegistration ==
    /\ pc = "populate" => SetSlots(_jvmti_callbacks_static) = {}
    /\ pc = "SetEventCallbacks" =>
          /\ _jvmti_callbacks = "static"
          /\ SetSlots(_jvmti_callbacks_static) = FiveSlots
    /\ (log # <<>> /\ log[Len(log)] = Ev("SetEventCallbacks", "initializeJVMTI", JVMTI_ERROR_NONE)) =>
          SetSlots(hostCallbacks[_jvmti]) = FiveSlots

\* The sequence is about to register the table in a second call, after the
\* first call had set and registered the VMInit slot.
C16_Witness ==
    /\ pc = "SetEventCallbacks"
    /\ nCalls = 2
    /\ \E e \in Envs : hostCallbacks[e]["VMInit"] # NoHook
    /\ _jvmti_callbacks_static["VMInit"] = NoHook

\* ------------------------------------------------------------------ C17
\* C17: no host operation is invoked through a NULL handle: the agent is
\* never about to call the host with _jvmti NULL, and no call has done so.
C17_NoHostCallThroughNullHandle ==
    /\ pc \in {"GetCapabilities", "AddCapabilities", "SetEventCallbacks", "Enable1", "Enable2",
               "Enable3", "Enable4", "agent_SetEventCallbacks", "agent_enable_VM_INIT"} =>
          _jvmti # NULL
    /\ \A i \in 1..Len(log) : log[i].op # "NullHandleUse"
    /\ pc # "crashed"

\* ------------------------------------------------------------------ C18
\* C18: the usage-error return changes neither the agent's globals nor the
\* host's state, and when Agent_OnLoad has returned -1 the handle is held,
\* the capabilities were requested, the five-slot table is registered and the
\* four categories are enabled; only parsing and arming were left out.
C18_UsageErrorKeepsInitialization ==
    [][ /\ pc = "agent_usage" =>
              /\ UNCHANGED <<agentVars, hostVars>>
              /\ pc' = "idle"
              /\ retval' = AGENT_USAGE_ERROR
        /\ (Returned("Agent_OnLoad") /\ retval = AGENT_USAGE_ERROR)' =>
              /\ _jvmti' # NULL
              /\ InitCompleted'
              /\ LogHas("AddCapabilities", "capas")'
              /\ (Ev("AddCapabilities", "capas", JVMTI_ERROR_NONE) \in {log'[i] : i \in 1..Len(log')}
                    => RequiredCapabilities \subseteq hostCaps'[_jvmti'])
              /\ SetSlots(_jvmti_callbacks_static') = FiveSlots
              /\ SetSlots(hostCallbacks'[_jvmti']) = FiveSlots
              /\ FourEvents \subseteq hostEnabled'[_jvmti']
              /\ ~LogHas("parse_options_and_extract_params", "options")'
              /\ ~LogHas("set_VMInit", "_jvmti_callbacks")'
              /\ ~LogHas("SetEventCallbacks", "Agent_OnLoad")' ]_vars

\* Agent_OnLoad has returned -1 with the capabilities granted, the five
\* hooks registered and the four categories enabled.
C18_Witness ==
    /\ Returned("Agent_OnLoad")
    /\ retval = AGENT_USAGE_ERROR
    /\ hostCaps[_jvmti] = RequiredCapabilities
    /\ SetSlots(hostCallbacks[_jvmti]) = FiveSlots
    /\ hostEnabled[_jvmti] = FourEvents

\* ------------------------------------------------------------------ C19
\* C19: when a run of the sequence completes, the agent's table and the table
\* registered in the current environment hold exactly the five hooks; when
\* Agent_OnLoad returns for a string without a comma the VMInit slot is unset
\* in both; VM_INIT stays enabled where it was enabled; and the VMInit slot
\* goes from unset to set only in an Agent_OnLoad call whose string has a comma.
C19_RerunResetsTable ==
    [][ /\ pc' \in {"jni_after", "agent_print_options"} =>
              /\ SetSlots(_jvmti_callbacks_static') = FiveSlots
              /\ SetSlots(hostCallbacks'[_jvmti']) = FiveSlots
        /\ (Returned("Agent_OnLoad") /\ ~HasComma(options))' =>
              /\ _jvmti_callbacks_static'["VMInit"] = NoHook
              /\ hostCallbacks'[_jvmti']["VMInit"] = NoHook
        /\ \A e \in Envs :
              /\ "JVMTI_EVENT_VM_INIT" \in hostEnabled[e] => "JVMTI_EVENT_VM_INIT" \in hostEnabled'[e]
              /\ (hostCallbacks[e]["VMInit"] = NoHook /\ hostCallbacks'[e]["VMInit"] # NoHook) =>
                    (entry = "Agent_OnLoad" /\ HasComma(options) /\ pc = "agent_SetEventCallbacks")
        /\ (_jvmti_callbacks_static["VMInit"] = NoHook /\ _jvmti_callbacks_static'["VMInit"] # NoHook) =>
              (entry = "Agent_OnLoad" /\ HasComma(options) /\ pc = "agent_set_VMInit") ]_vars

\* A second Agent_OnLoad, without a comma in its string, has returned: in its
\* environment VM_INIT is still enabled from the first call and the registered
\* table has lost the VMInit hook.
C19_Witness ==
    /\ Returned("Agent_OnLoad")
    /\ ~HasComma(options)
    /\ nCalls = 2
    /\ "JVMTI_EVENT_VM_INIT" \in hostEnabled[_jvmti]
    /\ SetSlots(hostCallbacks[_jvmti]) = FiveSlots

====
